---- MODULE Spec2Model ----
(***************************************************************************)
(* Model of app.c (Pong under uC/OS-III on a PIC32): the VT100 renderer    *)
(* (Screen_ and UART_Print functions), the scheduler lock as render lock   *)
(* (OSSchedLock/OSSchedUnlock), the Start task (App_TaskStart with         *)
(* AppTaskCreate and the statistics display, OS_CFG_STAT_TASK_EN > 0) and  *)
(* the Ball task (App_TaskBall).                                           *)
(*                                                                         *)
(* A byte is a number 0..255.  putU1 is the unit of interleaving: a task   *)
(* may take a step only while no other task has the scheduler locked.      *)
(* The relative priority of the Start and Ball tasks is set outside app.c  *)
(* (app_cfg.h), so any ready task may run when the scheduler is unlocked.  *)
(***************************************************************************)
EXTENDS Integers, Sequences, FiniteSets, TLC

VARIABLES
    pc,                     \* position of every task in its code
    x, y,                   \* App_TaskBall locals: ball position (col, row)
    x_delta, y_delta,       \* global ball velocity
    sw,                     \* switch levels read by the if-chain of the current tick
    i,                      \* App_TaskStart local: LED loop counter
    line,                   \* next statistics line the Start task writes (1..4)
    ticks,                  \* completed iterations of the Ball loop (saturating)
    OSSchedLockNestingCtr,  \* kernel: scheduler lock nesting counter
    lockOwner,              \* the task that locked the scheduler
    pending,                \* per task: bytes the current call still has to putU1
    txRun,                  \* transport: the current burst, [task, byte] sent since it was last idle
    ret,                    \* per task: possible return values of its last Screen_Write call
    call,                   \* the renderer call made by the stand-alone caller
    term,                   \* terminal: escape-sequence state and cursor within the burst
    stars                   \* terminal: the cells <<col, row>> that show a '*'

vars == <<pc, x, y, x_delta, y_delta, sw, i, line, ticks,
          OSSchedLockNestingCtr, lockOwner, pending, txRun, ret, call, term,
          stars>>

(***************************************************************************)
(* Bounds of the model                                                     *)
(***************************************************************************)
MaxTicks == 2       \* Ball ticks explored together with the Start task
ReplayLen == 6      \* Ball ticks explored by the scripted replay
Margin == 2         \* how far outside the screen positions are explored
CoastSpan == 3      \* ticks explored after the coasting ball has left the screen
StatSpan == 1       \* rows above the screen explored with the statistics display
LiveSpan == 1       \* columns either side of the start the ball is kept within, run unbounded
MaxField == 100     \* largest cursor coordinate given to Screen_MoveCursor alone
MaxNumber == 101    \* largest value given to Screen_WriteNumber

TickCap == ReplayLen + 1

(***************************************************************************)
(* Program constants                                                       *)
(***************************************************************************)
SCREEN_X_START == 1
SCREEN_X_END == 80
SCREEN_Y_START == 1
SCREEN_Y_END == 25

BALL_X_START == (SCREEN_X_END - SCREEN_X_START) \div 2
BALL_Y_START == (SCREEN_Y_END - SCREEN_Y_START) \div 2

ESC == 27           \* 0x1B
CH_LBRACKET == 91   \* '['
CH_SEMI == 59       \* ';'
CH_H == 72          \* 'H'
CH_c == 99          \* 'c'
CH_QUESTION == 63   \* '?'
CH_2 == 50          \* '2'
CH_5 == 53          \* '5'
CH_l == 108         \* 'l'
CH_h == 104         \* 'h'
CH_ZERO == 48       \* '0'
CH_BLANK == 32      \* ' '
CH_STAR == 42       \* '*'

STAT_X == 40        \* column of the statistics display
LED_LOOP_END == 9   \* for (i = 1; i < 9; i++)

\* "uC/OS-III, The Real-Time Kernel PIC32 \n PONG\n"
Banner ==
    <<117, 67, 47, 79, 83, 45, 73, 73, 73, 44, 32, 84, 104, 101, 32, 82, 101,
      97, 108, 45, 84, 105, 109, 101, 32, 75, 101, 114, 110, 101, 108, 32, 80,
      73, 67, 51, 50, 32, 10, 32, 80, 79, 78, 71, 10>>

Tasks == {"Start", "Ball"}
Procs == Tasks \cup {"Caller"}
NoTask == "none"
Buttons == {"BTN1", "BTN2", "BTN3", "BTN4"}
NoSample == [b \in Buttons |-> FALSE]
NoCall == [fn |-> "none", a |-> 0, b |-> 0, c |-> 0]

\* values the kernel reports to the statistics display
CPUUsageSamples == {0, 37}
TaskQtySamples == {5}
StkSamples == {73, 439}

\* a function that ends without a return statement returns an unspecified int
Indeterminate == {0, 1}

(***************************************************************************)
(* Renderer: pure byte encoders                                            *)
(***************************************************************************)
\* putU1 transmits one 8-bit character
Byte(v) == v % 256

UART_PrintNum(n) ==
    << Byte((n \div 10) + CH_ZERO), Byte((n % 10) + CH_ZERO) >>

UART_PrintNum3(n) ==
    << Byte((n \div 100) + CH_ZERO),
       Byte(((n % 100) \div 10) + CH_ZERO),
       Byte(((n % 100) % 10) + CH_ZERO) >>

Screen_Clear == << ESC, CH_c >>

\* variant: the cursor is switched on instead of off
Screen_OffCursor_Show == << ESC, CH_LBRACKET, CH_QUESTION, CH_2, CH_5, CH_h >>

Screen_OffCursor == << ESC, CH_LBRACKET, CH_QUESTION, CH_2, CH_5, CH_l >>

Screen_OnCursor == << ESC, CH_LBRACKET, CH_QUESTION, CH_2, CH_5, CH_h >>

\* variant: column field first, then row
Screen_MoveCursor_ColFirst(Xpos, Ypos) ==
    << ESC, CH_LBRACKET >> \o UART_PrintNum(Xpos) \o << CH_SEMI >>
        \o UART_PrintNum(Ypos) \o << CH_H >>

Screen_MoveCursor(Xpos, Ypos) ==
    << ESC, CH_LBRACKET >> \o UART_PrintNum(Ypos) \o << CH_SEMI >>
        \o UART_PrintNum(Xpos) \o << CH_H >>

Screen_Init == Screen_OffCursor \o Screen_Clear \o Screen_OffCursor

\* variant: the last column and the last row are rejected too
OutOfBounds_OffByOne(cx, cy) ==
    (cx >= SCREEN_X_END) \/ (cx < SCREEN_X_START) \/
    (cy >= SCREEN_Y_END) \/ (cy < SCREEN_Y_START)

\* variant: the right edge is not checked
OutOfBounds_NoRightEdge(cx, cy) ==
    (cx < SCREEN_X_START) \/ (cy > SCREEN_Y_END) \/ (cy < SCREEN_Y_START)

\* the bounds check of Screen_WriteChar and Screen_WriteNumber
OutOfBounds(cx, cy) ==
    (cx > SCREEN_X_END) \/ (cx < SCREEN_X_START) \/
    (cy > SCREEN_Y_END) \/ (cy < SCREEN_Y_START)

(***************************************************************************)
(* Scheduler lock and transport                                            *)
(***************************************************************************)
\* a task runs only while no other task has locked the scheduler
CanRun(t) == OSSchedLockNestingCtr = 0 \/ lockOwner = t

OSSchedLock(t) ==
    /\ OSSchedLockNestingCtr' = OSSchedLockNestingCtr + 1
    /\ lockOwner' = t

OSSchedUnlock(t) ==
    /\ OSSchedLockNestingCtr' = OSSchedLockNestingCtr - 1
    /\ lockOwner' = IF OSSchedLockNestingCtr - 1 = 0 THEN NoTask ELSE lockOwner

\* the places of the code inside a renderer call or a statistics display
InsidePcs ==
    {"Init1", "Banner", "Init2", "StatLines", "FirstDraw", "Erasing", "Drawing",
     "InCall"}

\* the tasks and the bytes of the current burst
RunTasks == {txRun[k].task : k \in DOMAIN txRun}
RunBytes == [k \in DOMAIN txRun |-> txRun[k].byte]

(***************************************************************************)
(* The VT100 terminal at the other end of the transport, as far as the     *)
(* program uses it: ESC c, ESC [ row ; col H, ESC [ ? 25 l/h, line feed    *)
(* and printable characters.  Every character the program prints follows   *)
(* a cursor move of the same burst, so the cursor is read from the burst.  *)
(***************************************************************************)
NoCursor == << 0, 0 >>
TermInit == [mode |-> "ground", p1 |-> 0, p2 |-> 0, np |-> 1, cur |-> NoCursor]

IsDigit(b) == b >= 48 /\ b <= 57
IsPrintable(b) == b >= 32 /\ b <= 126

\* row or column parameter of ESC [ row ; col H: 0 stands for 1
CursorParam(n) == IF n = 0 THEN 1 ELSE n

\* the terminal after it received byte b in state ts
TermStep(ts, b) ==
    CASE ts.mode = "ground" /\ b = ESC -> [ts EXCEPT !.mode = "esc"]
      [] ts.mode = "ground" /\ b = 10 /\ ts.cur # NoCursor
            -> [ts EXCEPT !.cur = << ts.cur[1], ts.cur[2] + 1 >>]
      [] ts.mode = "ground" /\ IsPrintable(b) /\ ts.cur # NoCursor
            -> [ts EXCEPT !.cur = << ts.cur[1] + 1, ts.cur[2] >>]
      [] ts.mode = "esc" /\ b = CH_LBRACKET
            -> [ts EXCEPT !.mode = "csi", !.p1 = 0, !.p2 = 0, !.np = 1]
      [] ts.mode = "esc" /\ b = CH_c
            -> [ts EXCEPT !.mode = "ground", !.cur = << 1, 1 >>]
      [] ts.mode = "esc" /\ b # CH_LBRACKET /\ b # CH_c
            -> [ts EXCEPT !.mode = "ground"]
      [] ts.mode = "csi" /\ IsDigit(b) /\ ts.np = 1
            -> [ts EXCEPT !.p1 = 10 * ts.p1 + (b - CH_ZERO)]
      [] ts.mode = "csi" /\ IsDigit(b) /\ ts.np = 2
            -> [ts EXCEPT !.p2 = 10 * ts.p2 + (b - CH_ZERO)]
      [] ts.mode = "csi" /\ b = CH_SEMI -> [ts EXCEPT !.np = 2]
      [] ts.mode = "csi" /\ b = CH_QUESTION -> ts
      [] ts.mode = "csi" /\ b = CH_H
            -> [ts EXCEPT !.mode = "ground",
                          !.cur = << CursorParam(ts.p2), CursorParam(ts.p1) >>]
      [] ts.mode = "csi" /\ ~IsDigit(b) /\ b \notin {CH_SEMI, CH_QUESTION, CH_H}
            -> [ts EXCEPT !.mode = "ground"]
      [] OTHER -> ts

\* the terminal after the bytes of a burst
RECURSIVE Term(_)
Term(bytes) ==
    IF bytes = << >> THEN TermInit
    ELSE TermStep(Term(SubSeq(bytes, 1, Len(bytes) - 1)), bytes[Len(bytes)])

\* the cells showing '*' after the terminal in state ts received byte b:
\* ESC c clears the screen, a printable character replaces what its cell showed
StarsAfter(st, ts, b) ==
    IF ts.mode = "esc" /\ b = CH_c THEN {}
    ELSE IF ts.mode = "ground" /\ IsPrintable(b) /\ ts.cur # NoCursor
         THEN IF b = CH_STAR THEN st \cup {ts.cur} ELSE st \ {ts.cur}
         ELSE st

\* task t enters a screen operation: a new burst begins on the transport,
\* unless another task is in the middle of an operation of its own
BeginOp(t) ==
    IF \E u \in Procs \ {t} : pc[u] \in InsidePcs
    THEN UNCHANGED <<txRun, term>>
    ELSE txRun' = << >> /\ term' = TermInit

\* the task sends the next byte of the call it is in
putU1(t) ==
    /\ CanRun(t)
    /\ pending[t] # << >>
    /\ txRun' = Append(txRun, [task |-> t, byte |-> Head(pending[t])])
    /\ pending' = [pending EXCEPT ![t] = Tail(@)]
    /\ term' = TermStep(term, Head(pending[t]))
    /\ stars' = StarsAfter(stars, term, Head(pending[t]))
    /\ UNCHANGED <<pc, x, y, x_delta, y_delta, sw, i, line, ticks,
                   OSSchedLockNestingCtr, lockOwner, ret, call>>

(***************************************************************************)
(* Screen_WriteChar / Screen_WriteNumber, called by task t at (cx, cy);    *)
(* the caller says where t is while inside the call and after it, and      *)
(* constrains its own variables itself.                                    *)
(***************************************************************************)
\* variant: the call does not lock the scheduler
Screen_WriteChar_Enter_NoLock(t, cx, cy, c, inside, after) ==
    /\ CanRun(t)
    /\ BeginOp(t)
    /\ IF OutOfBounds(cx, cy)
       THEN /\ pc' = [pc EXCEPT ![t] = after]
            /\ ret' = [ret EXCEPT ![t] = {1}]
            /\ UNCHANGED <<OSSchedLockNestingCtr, lockOwner, pending>>
       ELSE /\ pending' = [pending EXCEPT
                              ![t] = Screen_MoveCursor(cx, cy) \o << Byte(c) >>]
            /\ pc' = [pc EXCEPT ![t] = inside]
            /\ UNCHANGED <<OSSchedLockNestingCtr, lockOwner, ret>>

\* variant: the content byte is not sent
Screen_WriteChar_Enter_NoContent(t, cx, cy, c, inside, after) ==
    /\ CanRun(t)
    /\ BeginOp(t)
    /\ IF OutOfBounds(cx, cy)
       THEN /\ pc' = [pc EXCEPT ![t] = after]
            /\ ret' = [ret EXCEPT ![t] = {1}]
            /\ UNCHANGED <<OSSchedLockNestingCtr, lockOwner, pending>>
       ELSE /\ OSSchedLock(t)
            /\ pending' = [pending EXCEPT ![t] = Screen_MoveCursor(cx, cy)]
            /\ pc' = [pc EXCEPT ![t] = inside]
            /\ UNCHANGED ret

Screen_WriteChar_Enter(t, cx, cy, c, inside, after) ==
    /\ CanRun(t)
    /\ BeginOp(t)
    /\ IF OutOfBounds(cx, cy)
       THEN /\ pc' = [pc EXCEPT ![t] = after]
            /\ ret' = [ret EXCEPT ![t] = {1}]
            /\ UNCHANGED <<OSSchedLockNestingCtr, lockOwner, pending>>
       ELSE /\ OSSchedLock(t)
            /\ pending' = [pending EXCEPT
                              ![t] = Screen_MoveCursor(cx, cy) \o << Byte(c) >>]
            /\ pc' = [pc EXCEPT ![t] = inside]
            /\ UNCHANGED ret

\* variant: the call returns without unlocking the scheduler
Screen_WriteChar_Exit_NoUnlock(t, inside, after) ==
    /\ pc[t] = inside
    /\ CanRun(t)
    /\ pending[t] = << >>
    /\ pc' = [pc EXCEPT ![t] = after]
    /\ ret' = [ret EXCEPT ![t] = Indeterminate]
    /\ UNCHANGED <<OSSchedLockNestingCtr, lockOwner, pending, txRun, term>>

Screen_WriteChar_Exit(t, inside, after) ==
    /\ pc[t] = inside
    /\ CanRun(t)
    /\ pending[t] = << >>
    /\ OSSchedUnlock(t)
    /\ pc' = [pc EXCEPT ![t] = after]
    /\ ret' = [ret EXCEPT ![t] = Indeterminate]
    /\ UNCHANGED <<pending, txRun, term>>

Screen_WriteNumber_Enter(t, cx, cy, number, inside, after) ==
    /\ CanRun(t)
    /\ BeginOp(t)
    /\ IF OutOfBounds(cx, cy)
       THEN /\ pc' = [pc EXCEPT ![t] = after]
            /\ ret' = [ret EXCEPT ![t] = {1}]
            /\ UNCHANGED <<OSSchedLockNestingCtr, lockOwner, pending>>
       ELSE /\ OSSchedLock(t)
            /\ pending' = [pending EXCEPT
                              ![t] = Screen_MoveCursor(cx, cy) \o UART_PrintNum(number)]
            /\ pc' = [pc EXCEPT ![t] = inside]
            /\ UNCHANGED ret

Screen_WriteNumber_Exit(t, inside, after) ==
    /\ pc[t] = inside
    /\ CanRun(t)
    /\ pending[t] = << >>
    /\ OSSchedUnlock(t)
    /\ pc' = [pc EXCEPT ![t] = after]
    /\ ret' = [ret EXCEPT ![t] = Indeterminate]
    /\ UNCHANGED <<pending, txRun, term>>

(***************************************************************************)
(* Initial state: main() has created the Start task                        *)
(***************************************************************************)
Init ==
    /\ pc = [t \in Procs |-> CASE t = "Start" -> "Boot"
                               [] t = "Ball" -> "NotCreated"
                               [] OTHER -> "Idle"]
    /\ x = 0
    /\ y = 0
    /\ x_delta = 0
    /\ y_delta = 0
    /\ sw = NoSample
    /\ i = 0
    /\ line = 0
    /\ ticks = 0
    /\ OSSchedLockNestingCtr = 0
    /\ lockOwner = NoTask
    /\ pending = [t \in Procs |-> << >>]
    /\ txRun = << >>
    /\ term = TermInit
    /\ ret = [t \in Procs |-> {}]
    /\ call = NoCall
    /\ stars = {}

(***************************************************************************)
(* App_TaskStart: AppTaskCreate, then the statistics / LED loop            *)
(***************************************************************************)
\* a call that sends bytes without taking the lock
SendUnlocked(t, from, to, bytes) ==
    /\ pc[t] = from
    /\ CanRun(t)
    /\ pc' = [pc EXCEPT ![t] = to]
    /\ pending' = [pending EXCEPT ![t] = bytes]
    /\ BeginOp(t)

\* the call is over (all bytes sent) and the task goes on
Proceed(t, from, to) ==
    /\ pc[t] = from
    /\ CanRun(t)
    /\ pending[t] = << >>
    /\ pc' = [pc EXCEPT ![t] = to]

\* AppTaskCreate: Screen_Init()
StartScreenInit ==
    /\ SendUnlocked("Start", "Boot", "Init1", Screen_Init)
    /\ UNCHANGED <<x, y, x_delta, y_delta, sw, i, line, ticks,
                   OSSchedLockNestingCtr, lockOwner, ret, call, stars>>

\* AppTaskCreate: the first two-second delay begins
StartDelay1 ==
    /\ Proceed("Start", "Init1", "Dly1")
    /\ UNCHANGED <<x, y, x_delta, y_delta, sw, i, line, ticks,
                   OSSchedLockNestingCtr, lockOwner, pending, txRun, ret, call, term, stars>>

\* AppTaskCreate: Screen_MoveCursor(8, 8); putsU1(banner)
StartBanner ==
    /\ SendUnlocked("Start", "Dly1", "Banner", Screen_MoveCursor(8, 8) \o Banner)
    /\ UNCHANGED <<x, y, x_delta, y_delta, sw, i, line, ticks,
                   OSSchedLockNestingCtr, lockOwner, ret, call, stars>>

\* AppTaskCreate: the second two-second delay begins
StartDelay2 ==
    /\ Proceed("Start", "Banner", "Dly2")
    /\ UNCHANGED <<x, y, x_delta, y_delta, sw, i, line, ticks,
                   OSSchedLockNestingCtr, lockOwner, pending, txRun, ret, call, term, stars>>

\* AppTaskCreate: Screen_Init(); Screen_OffCursor()
StartScreenInit2 ==
    /\ SendUnlocked("Start", "Dly2", "Init2", Screen_Init \o Screen_OffCursor)
    /\ UNCHANGED <<x, y, x_delta, y_delta, sw, i, line, ticks,
                   OSSchedLockNestingCtr, lockOwner, ret, call, stars>>

\* AppTaskCreate: OSTaskCreate(App_TaskBall); AppTaskCreate returns
StartCreateBall ==
    /\ pc["Start"] = "Init2"
    /\ CanRun("Start")
    /\ pending["Start"] = << >>
    /\ pc' = [pc EXCEPT !["Start"] = "Stat", !["Ball"] = "Begin"]
    /\ UNCHANGED <<x, y, x_delta, y_delta, sw, i, line, ticks,
                   OSSchedLockNestingCtr, lockOwner, pending, txRun, ret, call, term, stars>>

\* variant: the statistics display is sent without OSSchedLock
StartStatLock_NoLock ==
    /\ pc["Start"] = "Stat"
    /\ CanRun("Start")
    /\ BeginOp("Start")
    /\ pc' = [pc EXCEPT !["Start"] = "StatLines"]
    /\ line' = 1
    /\ UNCHANGED <<x, y, x_delta, y_delta, sw, i, ticks, OSSchedLockNestingCtr,
                   lockOwner, pending, ret, call, stars>>

\* statistics display: OSSchedLock
StartStatLock ==
    /\ pc["Start"] = "Stat"
    /\ CanRun("Start")
    /\ OSSchedLock("Start")
    /\ BeginOp("Start")
    /\ pc' = [pc EXCEPT !["Start"] = "StatLines"]
    /\ line' = 1
    /\ UNCHANGED <<x, y, x_delta, y_delta, sw, i, ticks, pending, ret, call, stars>>

\* the bytes of statistics line n showing value v
StatLineBytes(n, v) ==
    Screen_MoveCursor(STAT_X, n + 1) \o
        (IF n <= 2 THEN UART_PrintNum(v) ELSE UART_PrintNum3(v))

\* the values the kernel may report on statistics line n
StatLineSamples(n) ==
    CASE n = 1 -> CPUUsageSamples
      [] n = 2 -> TaskQtySamples
      [] OTHER -> StkSamples

\* statistics display: one Screen_MoveCursor(40, n + 1) and its number
StartStatLine ==
    /\ pc["Start"] = "StatLines"
    /\ CanRun("Start")
    /\ pending["Start"] = << >>
    /\ line <= 4
    /\ \E v \in StatLineSamples(line) :
          pending' = [pending EXCEPT !["Start"] = StatLineBytes(line, v)]
    /\ line' = line + 1
    /\ UNCHANGED <<pc, x, y, x_delta, y_delta, sw, i, ticks,
                   OSSchedLockNestingCtr, lockOwner, txRun, ret, call, term, stars>>

\* variant: the statistics display ends without OSSchedUnlock
StartStatUnlock_NoUnlock ==
    /\ pc["Start"] = "StatLines"
    /\ CanRun("Start")
    /\ pending["Start"] = << >>
    /\ line = 5
    /\ pc' = [pc EXCEPT !["Start"] = "LedDly"]
    /\ i' = 1
    /\ line' = 0
    /\ UNCHANGED <<x, y, x_delta, y_delta, sw, ticks, OSSchedLockNestingCtr,
                   lockOwner, pending, txRun, ret, call, term, stars>>

\* statistics display: OSSchedUnlock; then LED_Toggle(1) and the first delay
StartStatUnlock ==
    /\ pc["Start"] = "StatLines"
    /\ CanRun("Start")
    /\ pending["Start"] = << >>
    /\ line = 5
    /\ OSSchedUnlock("Start")
    /\ pc' = [pc EXCEPT !["Start"] = "LedDly"]
    /\ i' = 1
    /\ line' = 0
    /\ UNCHANGED <<x, y, x_delta, y_delta, sw, ticks, pending, txRun, ret, call, term, stars>>

\* LED loop: the 500 ms delay expires; i++; next LED or back to the statistics
StartLedNext ==
    /\ pc["Start"] = "LedDly"
    /\ CanRun("Start")
    /\ i' = i + 1
    /\ pc' = [pc EXCEPT !["Start"] = IF i + 1 < LED_LOOP_END THEN "LedDly" ELSE "Stat"]
    /\ UNCHANGED <<x, y, x_delta, y_delta, sw, line, ticks,
                   OSSchedLockNestingCtr, lockOwner, pending, txRun, ret, call, term, stars>>

StartPutU1 == putU1("Start")

(***************************************************************************)
(* App_TaskBall                                                            *)
(***************************************************************************)
Ball_Up(s) == s["BTN1"]       \* RIGHT_UP_SW
Ball_Down(s) == s["BTN2"]     \* RIGHT_DOWN_SW
Ball_Left(s) == s["BTN3"]     \* LEFT_UP_SW
Ball_Right(s) == s["BTN4"]    \* LEFT_DOWN_SW

\* variant: the down input is tested before the up input
Resolve_DownFirst(s, dx, dy) ==
    IF Ball_Down(s) THEN << 0, -1 >>
    ELSE IF Ball_Up(s) THEN << 0, 1 >>
    ELSE IF Ball_Right(s) THEN << -1, 0 >>
    ELSE IF Ball_Left(s) THEN << 1, 0 >>
    ELSE << dx, dy >>

\* variant: the up input moves the ball towards row 1
Resolve_UpNegative(s, dx, dy) ==
    IF Ball_Up(s) THEN << 0, -1 >>
    ELSE IF Ball_Down(s) THEN << 0, 1 >>
    ELSE IF Ball_Right(s) THEN << -1, 0 >>
    ELSE IF Ball_Left(s) THEN << 1, 0 >>
    ELSE << dx, dy >>

\* variant: the vertical branches leave x_delta alone
Resolve_Diagonal(s, dx, dy) ==
    IF Ball_Up(s) THEN << dx, 1 >>
    ELSE IF Ball_Down(s) THEN << dx, -1 >>
    ELSE IF Ball_Right(s) THEN << -1, 0 >>
    ELSE IF Ball_Left(s) THEN << 1, 0 >>
    ELSE << dx, dy >>

\* variant: without input the ball goes back to moving right
Resolve_ResetRight(s, dx, dy) ==
    IF Ball_Up(s) THEN << 0, 1 >>
    ELSE IF Ball_Down(s) THEN << 0, -1 >>
    ELSE IF Ball_Right(s) THEN << -1, 0 >>
    ELSE IF Ball_Left(s) THEN << 1, 0 >>
    ELSE << 1, 0 >>

\* the if-chain of the loop body: the new <<x_delta, y_delta>>
Resolve(s, dx, dy) ==
    IF Ball_Up(s) THEN << 0, 1 >>
    ELSE IF Ball_Down(s) THEN << 0, -1 >>
    ELSE IF Ball_Right(s) THEN << -1, 0 >>
    ELSE IF Ball_Left(s) THEN << 1, 0 >>
    ELSE << dx, dy >>

\* variant: the task starts with the velocity pointing to the left
BallBegin_Leftward ==
    /\ pc["Ball"] = "Begin"
    /\ x_delta' = -1
    /\ y_delta' = 0
    /\ x' = BALL_X_START
    /\ y' = BALL_Y_START
    /\ Screen_WriteChar_Enter("Ball", BALL_X_START, BALL_Y_START, CH_STAR,
                              "FirstDraw", "Dly")
    /\ UNCHANGED <<sw, i, line, ticks, call, stars>>

\* the task starts: velocity, start position and the first '*'
BallBegin ==
    /\ pc["Ball"] = "Begin"
    /\ x_delta' = 1
    /\ y_delta' = 0
    /\ x' = BALL_X_START
    /\ y' = BALL_Y_START
    /\ Screen_WriteChar_Enter("Ball", BALL_X_START, BALL_Y_START, CH_STAR,
                              "FirstDraw", "Dly")
    /\ UNCHANGED <<sw, i, line, ticks, call, stars>>

BallFirstDrawExit ==
    /\ Screen_WriteChar_Exit("Ball", "FirstDraw", "Dly")
    /\ UNCHANGED <<x, y, x_delta, y_delta, sw, i, line, ticks, call, stars>>

\* OSTimeDlyHMSM(0, 0, 0, 75) is over and the task runs again
BallDelayExpire ==
    /\ pc["Ball"] = "Dly"
    /\ CanRun("Ball")
    /\ pc' = [pc EXCEPT !["Ball"] = "Erase"]
    /\ UNCHANGED <<x, y, x_delta, y_delta, sw, i, line, ticks,
                   OSSchedLockNestingCtr, lockOwner, pending, txRun, ret, call, term, stars>>

\* variant: the blank is written where the ball is about to go
BallErase_Ahead ==
    /\ pc["Ball"] = "Erase"
    /\ Screen_WriteChar_Enter("Ball", x + x_delta, y + y_delta, CH_BLANK, "Erasing", "Move")
    /\ UNCHANGED <<x, y, x_delta, y_delta, sw, i, line, ticks, call, stars>>

\* variant: the old position is not erased
BallErase_Skip ==
    /\ pc["Ball"] = "Erase"
    /\ CanRun("Ball")
    /\ pc' = [pc EXCEPT !["Ball"] = "Move"]
    /\ UNCHANGED <<x, y, x_delta, y_delta, sw, i, line, ticks,
                   OSSchedLockNestingCtr, lockOwner, pending, txRun, ret, call, term, stars>>

\* Screen_WriteChar(x, y, ' ')
BallErase ==
    /\ pc["Ball"] = "Erase"
    /\ Screen_WriteChar_Enter("Ball", x, y, CH_BLANK, "Erasing", "Move")
    /\ UNCHANGED <<x, y, x_delta, y_delta, sw, i, line, ticks, call, stars>>

BallEraseExit ==
    /\ Screen_WriteChar_Exit("Ball", "Erasing", "Move")
    /\ UNCHANGED <<x, y, x_delta, y_delta, sw, i, line, ticks, call, stars>>

\* the velocity after the collision lines that app.c has commented out
Bounced(px, py, dx, dy) ==
    << IF px > SCREEN_X_END \/ px < SCREEN_X_START THEN -dx ELSE dx,
       IF py > SCREEN_Y_END \/ py < SCREEN_Y_START THEN -dy ELSE dy >>

\* variant: the commented-out collision lines are active
BallMoveWith_Bounce(s) ==
    /\ pc["Ball"] = "Move"
    /\ CanRun("Ball")
    /\ sw' = s
    /\ x_delta' = Resolve(s, Bounced(x, y, x_delta, y_delta)[1],
                             Bounced(x, y, x_delta, y_delta)[2])[1]
    /\ y_delta' = Resolve(s, Bounced(x, y, x_delta, y_delta)[1],
                             Bounced(x, y, x_delta, y_delta)[2])[2]
    /\ x' = x + x_delta'
    /\ y' = y + y_delta'
    /\ ticks' = IF ticks < TickCap THEN ticks + 1 ELSE ticks
    /\ pc' = [pc EXCEPT !["Ball"] = "Draw"]
    /\ UNCHANGED <<i, line, OSSchedLockNestingCtr, lockOwner, pending, txRun,
                   ret, call, term, stars>>

\* the switches read s: resolve the direction, then x += x_delta; y += y_delta
BallMoveWith(s) ==
    /\ pc["Ball"] = "Move"
    /\ CanRun("Ball")
    /\ sw' = s
    /\ x_delta' = Resolve(s, x_delta, y_delta)[1]
    /\ y_delta' = Resolve(s, x_delta, y_delta)[2]
    /\ x' = x + x_delta'
    /\ y' = y + y_delta'
    /\ ticks' = IF ticks < TickCap THEN ticks + 1 ELSE ticks
    /\ pc' = [pc EXCEPT !["Ball"] = "Draw"]
    /\ UNCHANGED <<i, line, OSSchedLockNestingCtr, lockOwner, pending, txRun,
                   ret, call, term, stars>>

BallMove == \E s \in [Buttons -> BOOLEAN] : BallMoveWith(s)

\* Screen_WriteChar(x, y, '*')
BallDraw ==
    /\ pc["Ball"] = "Draw"
    /\ Screen_WriteChar_Enter("Ball", x, y, CH_STAR, "Drawing", "Dly")
    /\ sw' = NoSample
    /\ UNCHANGED <<x, y, x_delta, y_delta, i, line, ticks, call, stars>>

\* variant: the task returns after its first pass through the loop
BallDrawExit_Return ==
    /\ Screen_WriteChar_Exit("Ball", "Drawing", "Done")
    /\ UNCHANGED <<x, y, x_delta, y_delta, sw, i, line, ticks, call, stars>>

BallDrawExit ==
    /\ Screen_WriteChar_Exit("Ball", "Drawing", "Dly")
    /\ UNCHANGED <<x, y, x_delta, y_delta, sw, i, line, ticks, call, stars>>

BallPutU1 == putU1("Ball")

(***************************************************************************)
(* The program: Start and Ball tasks interleaved                           *)
(***************************************************************************)
Next ==
    \/ StartScreenInit
    \/ StartDelay1
    \/ StartBanner
    \/ StartDelay2
    \/ StartScreenInit2
    \/ StartCreateBall
    \/ StartStatLock
    \/ StartStatLine
    \/ StartStatUnlock
    \/ StartLedNext
    \/ StartPutU1
    \/ BallBegin
    \/ BallFirstDrawExit
    \/ (ticks < MaxTicks /\ BallDelayExpire)
    \/ BallErase
    \/ BallEraseExit
    \/ BallMove
    \/ BallDraw
    \/ BallDrawExit
    \/ BallPutU1

Spec == Init /\ [][Next]_vars

TypeOK ==
    /\ pc \in [Procs -> STRING]
    /\ x \in Int /\ y \in Int
    /\ x_delta \in -1..1 /\ y_delta \in -1..1
    /\ sw \in [Buttons -> BOOLEAN]
    /\ ticks \in 0..TickCap
    /\ OSSchedLockNestingCtr \in Nat
    /\ lockOwner \in Procs \cup {NoTask}

(***************************************************************************)
(* The Ball task on its own, from the state in which AppTaskCreate has     *)
(* created it, over every position up to Margin cells outside the screen.  *)
(* The Start task changes none of the Ball's variables.                    *)
(***************************************************************************)
\* what the transport saw last when the Ball task is created
CreatedRun ==
    [k \in 1..Len(Screen_Init \o Screen_OffCursor) |->
        [task |-> "Start", byte |-> (Screen_Init \o Screen_OffCursor)[k]]]

InitBall ==
    /\ pc = [t \in Procs |-> CASE t = "Start" -> "Stat"
                               [] t = "Ball" -> "Begin"
                               [] OTHER -> "Idle"]
    /\ x = 0
    /\ y = 0
    /\ x_delta = 0
    /\ y_delta = 0
    /\ sw = NoSample
    /\ i = 0
    /\ line = 0
    /\ ticks = 0
    /\ OSSchedLockNestingCtr = 0
    /\ lockOwner = NoTask
    /\ pending = [t \in Procs |-> << >>]
    /\ txRun = CreatedRun
    /\ term = Term([k \in DOMAIN CreatedRun |-> CreatedRun[k].byte])
    /\ ret = [t \in Procs |-> {}]
    /\ call = NoCall
    /\ stars = {}

InWindow ==
    /\ x >= SCREEN_X_START - Margin /\ x <= SCREEN_X_END + Margin
    /\ y >= SCREEN_Y_START - Margin /\ y <= SCREEN_Y_END + Margin

NextBall ==
    \/ BallBegin
    \/ BallFirstDrawExit
    \/ (InWindow /\ BallDelayExpire)
    \/ BallErase
    \/ BallEraseExit
    \/ BallMove
    \/ BallDraw
    \/ BallDrawExit
    \/ BallPutU1

SpecBall == InitBall /\ [][NextBall]_vars

(***************************************************************************)
(* Scripted replay of the Ball task: nothing asserted during the first     *)
(* five ticks, BTN1 (the up input) asserted at the sixth.                  *)
(***************************************************************************)
Script(n) ==
    IF n <= 5 THEN {NoSample}
    ELSE IF n = 6 THEN {s \in [Buttons -> BOOLEAN] : s["BTN1"]}
    ELSE [Buttons -> BOOLEAN]

ReplayMove == \E s \in Script(ticks + 1) : BallMoveWith(s)

NextReplay ==
    \/ BallBegin
    \/ BallFirstDrawExit
    \/ (ticks < ReplayLen /\ BallDelayExpire)
    \/ BallErase
    \/ BallEraseExit
    \/ ReplayMove
    \/ BallDraw
    \/ BallDrawExit
    \/ BallPutU1

SpecReplay == InitBall /\ [][NextReplay]_vars

(***************************************************************************)
(* The whole program with the ball steered through the statistics          *)
(* display: nothing is pressed at the first tick, which takes the ball to  *)
(* column 40, and BTN2 alone from then on, which takes it up column 40     *)
(* through rows 5 to 2 and off the screen at the top.                      *)
(***************************************************************************)
StatScript ==
    IF x = BALL_X_START THEN NoSample
    ELSE [b \in Buttons |-> b = "BTN2"]

StatMove == BallMoveWith(StatScript)

NextStat ==
    \/ StartScreenInit
    \/ StartDelay1
    \/ StartBanner
    \/ StartDelay2
    \/ StartScreenInit2
    \/ StartCreateBall
    \/ StartStatLock
    \/ StartStatLine
    \/ StartStatUnlock
    \/ StartLedNext
    \/ StartPutU1
    \/ BallBegin
    \/ BallFirstDrawExit
    \/ (y > SCREEN_Y_START - StatSpan /\ BallDelayExpire)
    \/ BallErase
    \/ BallEraseExit
    \/ StatMove
    \/ BallDraw
    \/ BallDrawExit
    \/ BallPutU1

SpecStat == Init /\ [][NextStat]_vars

(***************************************************************************)
(* The whole program without a bound on the number of ticks.  The players  *)
(* keep the ball within LiveSpan columns of its start: at the right end    *)
(* BTN4 is pressed, at the left end BTN3, in between either or neither.    *)
(* Both tasks suspend themselves in OSTimeDlyHMSM in every pass of their   *)
(* loops, so the scheduler runs each of them again and again: a step that  *)
(* is possible again and again is eventually taken.                        *)
(***************************************************************************)
Pressed(b) == [c \in Buttons |-> c = b]

LiveInputs ==
    IF x >= BALL_X_START + LiveSpan THEN {Pressed("BTN4")}
    ELSE IF x <= BALL_X_START - LiveSpan THEN {Pressed("BTN3")}
    ELSE {NoSample, Pressed("BTN3"), Pressed("BTN4")}

LiveMove == \E s \in LiveInputs : BallMoveWith(s)

StartNext ==
    \/ StartScreenInit
    \/ StartDelay1
    \/ StartBanner
    \/ StartDelay2
    \/ StartScreenInit2
    \/ StartCreateBall
    \/ StartStatLock
    \/ StartStatLine
    \/ StartStatUnlock
    \/ StartLedNext
    \/ StartPutU1

BallNextLive ==
    \/ BallBegin
    \/ BallFirstDrawExit
    \/ BallDelayExpire
    \/ BallErase
    \/ BallEraseExit
    \/ LiveMove
    \/ BallDraw
    \/ BallDrawExit
    \/ BallPutU1

NextLive == StartNext \/ BallNextLive

SpecLive ==
    Init /\ [][NextLive]_vars /\ SF_vars(StartNext) /\ SF_vars(BallNextLive)

(***************************************************************************)
(* The Ball task on its own when no switch is ever pressed, until          *)
(* CoastSpan ticks after it has left the screen.  Nothing else is ready    *)
(* to run, so the task always gets the processor.                          *)
(***************************************************************************)
CoastMove == BallMoveWith(NoSample)

NextCoast ==
    \/ BallBegin
    \/ BallFirstDrawExit
    \/ (x < SCREEN_X_END + CoastSpan /\ BallDelayExpire)
    \/ BallErase
    \/ BallEraseExit
    \/ CoastMove
    \/ BallDraw
    \/ BallDrawExit
    \/ BallPutU1

SpecCoast == InitBall /\ [][NextCoast]_vars /\ WF_vars(NextCoast)

(***************************************************************************)
(* One renderer call on its own, with arguments from bounded sets          *)
(***************************************************************************)
XRange == (SCREEN_X_START - Margin)..(SCREEN_X_END + Margin)
YRange == (SCREEN_Y_START - Margin)..(SCREEN_Y_END + Margin)

RenderCalls ==
    [fn : {"Screen_WriteChar"}, a : XRange, b : YRange, c : {CH_BLANK, CH_STAR}]
    \cup [fn : {"Screen_WriteNumber"}, a : XRange, b : YRange, c : {7}]
    \cup [fn : {"Screen_WriteNumber"}, a : {3, 75}, b : {3}, c : 0..MaxNumber]
    \cup [fn : {"Screen_MoveCursor"}, a : 0..MaxField, b : 0..MaxField, c : {0}]
    \cup [fn : {"Screen_Clear", "Screen_OffCursor", "Screen_OnCursor"},
          a : {0}, b : {0}, c : {0}]

InitRender ==
    /\ pc = [t \in Procs |-> CASE t = "Start" -> "Boot"
                               [] t = "Ball" -> "NotCreated"
                               [] OTHER -> "Call"]
    /\ x = 0
    /\ y = 0
    /\ x_delta = 0
    /\ y_delta = 0
    /\ sw = NoSample
    /\ i = 0
    /\ line = 0
    /\ ticks = 0
    /\ OSSchedLockNestingCtr = 0
    /\ lockOwner = NoTask
    /\ pending = [t \in Procs |-> << >>]
    /\ txRun = << >>
    /\ term = TermInit
    /\ ret = [t \in Procs |-> {}]
    /\ call \in RenderCalls
    /\ stars = {}

CallerWriteChar ==
    /\ pc["Caller"] = "Call"
    /\ call.fn = "Screen_WriteChar"
    /\ Screen_WriteChar_Enter("Caller", call.a, call.b, call.c, "InCall", "Done")
    /\ UNCHANGED <<x, y, x_delta, y_delta, sw, i, line, ticks, call, stars>>

CallerWriteCharExit ==
    /\ call.fn = "Screen_WriteChar"
    /\ Screen_WriteChar_Exit("Caller", "InCall", "Done")
    /\ UNCHANGED <<x, y, x_delta, y_delta, sw, i, line, ticks, call, stars>>

CallerWriteNumber ==
    /\ pc["Caller"] = "Call"
    /\ call.fn = "Screen_WriteNumber"
    /\ Screen_WriteNumber_Enter("Caller", call.a, call.b, call.c, "InCall", "Done")
    /\ UNCHANGED <<x, y, x_delta, y_delta, sw, i, line, ticks, call, stars>>

CallerWriteNumberExit ==
    /\ call.fn = "Screen_WriteNumber"
    /\ Screen_WriteNumber_Exit("Caller", "InCall", "Done")
    /\ UNCHANGED <<x, y, x_delta, y_delta, sw, i, line, ticks, call, stars>>

CallerMoveCursor ==
    /\ call.fn = "Screen_MoveCursor"
    /\ SendUnlocked("Caller", "Call", "InCall", Screen_MoveCursor(call.a, call.b))
    /\ UNCHANGED <<x, y, x_delta, y_delta, sw, i, line, ticks,
                   OSSchedLockNestingCtr, lockOwner, ret, call, stars>>

CallerMoveCursorDone ==
    /\ call.fn = "Screen_MoveCursor"
    /\ Proceed("Caller", "InCall", "Done")
    /\ UNCHANGED <<x, y, x_delta, y_delta, sw, i, line, ticks,
                   OSSchedLockNestingCtr, lockOwner, pending, txRun, ret, call, term, stars>>

CallerClear ==
    /\ call.fn = "Screen_Clear"
    /\ SendUnlocked("Caller", "Call", "InCall", Screen_Clear)
    /\ UNCHANGED <<x, y, x_delta, y_delta, sw, i, line, ticks,
                   OSSchedLockNestingCtr, lockOwner, ret, call, stars>>

CallerOffCursor ==
    /\ call.fn = "Screen_OffCursor"
    /\ SendUnlocked("Caller", "Call", "InCall", Screen_OffCursor)
    /\ UNCHANGED <<x, y, x_delta, y_delta, sw, i, line, ticks,
                   OSSchedLockNestingCtr, lockOwner, ret, call, stars>>

CallerOnCursor ==
    /\ call.fn = "Screen_OnCursor"
    /\ SendUnlocked("Caller", "Call", "InCall", Screen_OnCursor)
    /\ UNCHANGED <<x, y, x_delta, y_delta, sw, i, line, ticks,
                   OSSchedLockNestingCtr, lockOwner, ret, call, stars>>

CallerControlDone ==
    /\ call.fn \in {"Screen_Clear", "Screen_OffCursor", "Screen_OnCursor"}
    /\ Proceed("Caller", "InCall", "Done")
    /\ UNCHANGED <<x, y, x_delta, y_delta, sw, i, line, ticks,
                   OSSchedLockNestingCtr, lockOwner, pending, txRun, ret, call, term, stars>>

CallerPutU1 == putU1("Caller")

NextRender ==
    \/ CallerWriteChar
    \/ CallerWriteCharExit
    \/ CallerWriteNumber
    \/ CallerWriteNumberExit
    \/ CallerMoveCursor
    \/ CallerMoveCursorDone
    \/ CallerClear
    \/ CallerOffCursor
    \/ CallerOnCursor
    \/ CallerControlDone
    \/ CallerPutU1

SpecRender == InitRender /\ [][NextRender]_vars

(***************************************************************************)
(* Properties                                                              *)
(***************************************************************************)
\* the ASCII codes of the decimal digits 0..9
DecimalDigit == << 48, 49, 50, 51, 52, 53, 54, 55, 56, 57 >>
TwoDigits(n) == << DecimalDigit[(n \div 10) + 1], DecimalDigit[(n % 10) + 1] >>

\* the glyph of the write the Ball task is inside of
BallGlyph == IF pc["Ball"] = "Erasing" THEN CH_BLANK ELSE CH_STAR

\* C1: no torn writes.  A burst on the transport holds the bytes of one task
\* only; while the scheduler is locked every byte of the burst is the lock
\* holder's; when a Screen_WriteChar of the Ball task has sent its last byte
\* the burst is exactly its cursor move and its glyph, and when the statistics
\* display is complete the burst is exactly its 42 bytes.
C1_NoTornWrites ==
    /\ Cardinality(RunTasks) <= 1
    /\ lockOwner # NoTask => RunTasks \subseteq {lockOwner}
    /\ (pc["Ball"] \in {"FirstDraw", "Erasing", "Drawing"} /\ pending["Ball"] = << >>)
          => /\ RunBytes = Screen_MoveCursor(x, y) \o << BallGlyph >>
             /\ RunTasks = {"Ball"}
    /\ (pc["Start"] = "StatLines" /\ line = 5 /\ pending["Start"] = << >>)
          => /\ Len(txRun) = 42
             /\ RunTasks = {"Start"}

\* C1 witness: the statistics display is under way while the Ball task is in
\* the middle of a tick, between its erase and its draw
C1_Witness ==
    /\ lockOwner = "Start"
    /\ Len(txRun) >= 9
    /\ pc["Ball"] = "Draw"
    /\ ticks >= 1

\* C2 as stated: between the erase write and the draw write of a tick the
\* Ball task still holds the lock it took for the erase
C2_Original ==
    (pc["Ball"] = "Move" /\ ~OutOfBounds(x, y)) => lockOwner = "Ball"

\* C2 amended: the erase write and the draw write of a tick are each made
\* inside a lock acquisition of their own (depth 1); the lock is not held by
\* the Ball task before the erase, between the erase and the draw, or after
\* the draw
C2_LockPerWrite ==
    /\ pc["Ball"] \in {"FirstDraw", "Erasing", "Drawing"}
          => (lockOwner = "Ball" /\ OSSchedLockNestingCtr = 1)
    /\ pc["Ball"] \in {"NotCreated", "Begin", "Dly", "Erase", "Move", "Draw"}
          => lockOwner # "Ball"

\* C2 witness: the Start task holds the lock and has written to the screen
\* after the Ball task erased its glyph and before it drew the new one
C2_Witness ==
    /\ pc["Ball"] = "Move"
    /\ ~OutOfBounds(x, y)
    /\ ticks = 1
    /\ lockOwner = "Start"
    /\ Len(txRun) = 42

\* C3: a Screen_WriteChar or Screen_WriteNumber call with x < 1, x > 80, y < 1
\* or y > 25 returns 1, sends no byte and never locks the scheduler; a call
\* with coordinates inside, the edges 1, 80 and 1, 25 included, is carried out
C3_OutOfBounds ==
    call.fn \in {"Screen_WriteChar", "Screen_WriteNumber"} =>
        IF call.a < 1 \/ call.a > 80 \/ call.b < 1 \/ call.b > 25
        THEN /\ txRun = << >>
             /\ pending["Caller"] = << >>
             /\ OSSchedLockNestingCtr = 0
             /\ lockOwner = NoTask
             /\ pc["Caller"] \in {"Call", "Done"}
             /\ pc["Caller"] = "Done" => ret["Caller"] = {1}
        ELSE pc["Caller"] = "Done" =>
                /\ Len(txRun) >= 9
                /\ ret["Caller"] # {1}

\* C3 witness: a call one column right of the screen has returned
C3_Witness ==
    /\ call.fn = "Screen_WriteNumber"
    /\ call.a = 81
    /\ call.b = 25
    /\ pc["Caller"] = "Done"
    /\ ret["Caller"] = {1}

\* C4: Screen_WriteChar(x, y, c) with 1 <= x <= 80 and 1 <= y <= 25 sends the
\* bytes of Screen_MoveCursor(x, y), then the byte c, and nothing else: 9 bytes
C4_WriteCharBytes ==
    (/\ call.fn = "Screen_WriteChar"
     /\ call.a >= 1 /\ call.a <= 80 /\ call.b >= 1 /\ call.b <= 25
     /\ pc["Caller"] = "Done")
        => /\ RunBytes = Screen_MoveCursor(call.a, call.b) \o << call.c >>
           /\ Len(txRun) = 9
           /\ RunTasks = {"Caller"}

\* C4 witness: the call for the bottom right cell has returned
C4_Witness ==
    /\ call.fn = "Screen_WriteChar"
    /\ call.a = 80
    /\ call.b = 25
    /\ call.c = CH_STAR
    /\ pc["Caller"] = "Done"
    /\ Len(txRun) = 9

\* C5: Screen_MoveCursor(col, row) with col, row in 0..99 sends ESC '[', the
\* row as two decimal digits, ';', the column as two decimal digits, 'H';
\* Screen_MoveCursor(12, 13) sends ESC [ 1 3 ; 1 2 H
C5_MoveCursorBytes ==
    (/\ call.fn = "Screen_MoveCursor"
     /\ call.a \in 0..99 /\ call.b \in 0..99
     /\ pc["Caller"] = "Done")
        => /\ RunBytes = << 27, 91 >> \o TwoDigits(call.b) \o << 59 >>
                            \o TwoDigits(call.a) \o << 72 >>
           /\ (call.a = 12 /\ call.b = 13)
                 => RunBytes = << 27, 91, 49, 51, 59, 49, 50, 72 >>

\* C5 witness: Screen_MoveCursor(12, 13) has returned
C5_Witness ==
    /\ call.fn = "Screen_MoveCursor"
    /\ call.a = 12
    /\ call.b = 13
    /\ pc["Caller"] = "Done"
    /\ Len(txRun) = 8

\* C6 as stated: the number field of Screen_WriteNumber is the two decimal
\* digits of the value modulo 100
C6_TwoDigitField ==
    (/\ call.fn = "Screen_WriteNumber"
     /\ ~OutOfBounds(call.a, call.b)
     /\ pc["Caller"] = "Done")
        => /\ Len(txRun) = 10
           /\ << RunBytes[9], RunBytes[10] >> = TwoDigits(call.c % 100)

\* C7: the direction is resolved in the order up (BTN1), down (BTN2),
\* left turn (BTN4), remaining input (BTN3): the velocity after the step is
\* that of the first asserted input in this order
C7_PriorityOrder ==
    [][(pc["Ball"] = "Move" /\ pc'["Ball"] = "Draw") =>
          /\ sw'["BTN1"] => (x_delta' = 0 /\ y_delta' = 1)
          /\ (~sw'["BTN1"] /\ sw'["BTN2"]) => (x_delta' = 0 /\ y_delta' = -1)
          /\ (~sw'["BTN1"] /\ ~sw'["BTN2"] /\ sw'["BTN4"])
                => (x_delta' = -1 /\ y_delta' = 0)
          /\ (~sw'["BTN1"] /\ ~sw'["BTN2"] /\ ~sw'["BTN4"] /\ sw'["BTN3"])
                => (x_delta' = 1 /\ y_delta' = 0)]_vars

\* C7 witness: all four inputs were asserted and the ball moves as for up
C7_Witness ==
    /\ pc["Ball"] = "Draw"
    /\ \A b \in Buttons : sw[b]
    /\ x_delta = 0
    /\ y_delta = 1

\* the Ball task has set its start position and velocity
BallStarted == pc["Ball"] \notin {"NotCreated", "Begin"}

\* C8 as stated: start at (40, 12), (45, 12) after five ticks without input,
\* velocity (0, +1) and position (45, 13) after up at the sixth tick
C8_Original ==
    /\ (BallStarted /\ ticks = 0) => (x = 40 /\ y = 12 /\ x_delta = 1 /\ y_delta = 0)
    /\ ticks = 5 => (x = 45 /\ y = 12)
    /\ ticks = 6 => (x = 45 /\ y = 13 /\ x_delta = 0 /\ y_delta = 1)

\* C8 amended: start at (39, 12) with velocity (+1, 0); (44, 12) after five
\* ticks without input; velocity (0, +1) and position (44, 13) after up at
\* the sixth tick
C8_Replay ==
    /\ (BallStarted /\ ticks = 0) => (x = 39 /\ y = 12 /\ x_delta = 1 /\ y_delta = 0)
    /\ ticks = 5 => (x = 44 /\ y = 12 /\ x_delta = 1 /\ y_delta = 0)
    /\ ticks = 6 => (x = 44 /\ y = 13 /\ x_delta = 0 /\ y_delta = 1)

\* C8 witness: the sixth tick is complete
C8_Witness ==
    /\ ticks = 6
    /\ pc["Ball"] = "Dly"
    /\ x = 44
    /\ y = 13

\* C9: at most one of x_delta and y_delta is non-zero
C9_AxisAligned == x_delta = 0 \/ y_delta = 0

\* C9 witness: the ball has turned from horizontal to vertical motion
C9_Witness ==
    /\ pc["Ball"] = "Draw"
    /\ sw["BTN2"]
    /\ x_delta = 0
    /\ y_delta = -1

\* the number a two-digit field on the transport stands for
FieldValue(hi, lo) == 10 * (hi - 48) + (lo - 48)

\* C10: every cursor move the Ball task sends before a glyph encodes a row in
\* 1..25 and a column in 1..80, and the glyph is a blank or a '*'
C10_GlyphInBounds ==
    "Ball" \in RunTasks =>
        /\ Len(txRun) >= 4
              => FieldValue(RunBytes[3], RunBytes[4]) \in 1..25
        /\ Len(txRun) >= 7
              => FieldValue(RunBytes[6], RunBytes[7]) \in 1..80
        /\ Len(txRun) >= 9
              => RunBytes[9] \in {32, 42}

\* C10 witness: the ball is outside the screen and its draw sent nothing
C10_Witness ==
    /\ OutOfBounds(x, y)
    /\ pc["Ball"] = "Dly"
    /\ ticks >= 1
    /\ txRun = << >>

\* the places of the code where a task is suspended in OSTimeDlyHMSM
DelayPcs == {"Dly", "Dly1", "Dly2", "LedDly"}

\* C11: the Ball task holds the lock only while it is inside one
\* Screen_WriteChar, for one cursor move and one glyph (at most 9 bytes), and
\* no task holds the lock while it is suspended in OSTimeDlyHMSM
C11_NoLockAcrossDelay ==
    /\ \A t \in Tasks : pc[t] \in DelayPcs => lockOwner # t
    /\ lockOwner = "Ball"
          => /\ pc["Ball"] \in {"FirstDraw", "Erasing", "Drawing"}
             /\ Len(txRun) + Len(pending["Ball"]) = 9
             /\ RunBytes \o pending["Ball"] = Screen_MoveCursor(x, y) \o << BallGlyph >>

\* C11 witness: the Ball task is in its periodic delay after a tick, the lock
\* is free and the burst it left is the one write of its draw
C11_Witness ==
    /\ pc["Ball"] = "Dly"
    /\ ticks = 1
    /\ lockOwner = NoTask
    /\ Len(txRun) = 9
    /\ RunTasks = {"Ball"}

\* C13: the lock nesting depth is always 0 or 1, it is 1 exactly while some
\* task owns the lock, and a task acquires the lock only when the depth is 0
C13_NoNesting ==
    /\ OSSchedLockNestingCtr \in {0, 1}
    /\ OSSchedLockNestingCtr = 1 <=> lockOwner # NoTask
    /\ lockOwner = "Start" => pc["Start"] = "StatLines"
    /\ lockOwner = "Ball" => pc["Ball"] \in {"FirstDraw", "Erasing", "Drawing"}

\* C13 witness: the Ball task holds the lock again, for the draw of a tick,
\* after it released the one of the erase
C13_Witness ==
    /\ OSSchedLockNestingCtr = 1
    /\ lockOwner = "Ball"
    /\ pc["Ball"] = "Drawing"
    /\ ticks = 2

\* C14: Screen_Clear sends exactly ESC 'c', Screen_OffCursor exactly
\* ESC '[' '?' '2' '5' 'l' and Screen_OnCursor exactly ESC '[' '?' '2' '5' 'h'
C14_ControlSequences ==
    pc["Caller"] = "Done" =>
        /\ call.fn = "Screen_Clear" => RunBytes = << 27, 99 >>
        /\ call.fn = "Screen_OffCursor" => RunBytes = << 27, 91, 63, 50, 53, 108 >>
        /\ call.fn = "Screen_OnCursor" => RunBytes = << 27, 91, 63, 50, 53, 104 >>

\* C14 witness: Screen_OffCursor has returned after six bytes
C14_Witness ==
    /\ call.fn = "Screen_OffCursor"
    /\ pc["Caller"] = "Done"
    /\ Len(txRun) = 6

\* the step of a tick that resolves the direction and moves the ball
MoveStep == pc["Ball"] = "Move" /\ pc'["Ball"] = "Draw"

\* C16: a tick in which no input is asserted leaves <<x_delta, y_delta>>
\* unchanged, and outside the resolving step of a tick (and the start of the
\* task) the velocity never changes
C16_Coasting ==
    [][/\ (MoveStep /\ sw' = NoSample)
             => (x_delta' = x_delta /\ y_delta' = y_delta)
       /\ (~MoveStep /\ pc["Ball"] # "Begin")
             => (x_delta' = x_delta /\ y_delta' = y_delta)]_vars

\* C16 witness: the ball coasts downwards in a tick without input
C16_Witness ==
    /\ pc["Ball"] = "Draw"
    /\ sw = NoSample
    /\ x_delta = 0
    /\ y_delta = 1
    /\ y = BALL_Y_START + 2

\* C17: in every tick the new position is the old position plus the velocity,
\* inside and outside the screen alike, and with no input asserted the
\* velocity is the same after the tick when the old or the new position is
\* outside the screen
C17_NoBounce ==
    [][MoveStep =>
          /\ x' = x + x_delta'
          /\ y' = y + y_delta'
          /\ (sw' = NoSample /\ (OutOfBounds(x, y) \/ OutOfBounds(x', y')))
                => (x_delta' = x_delta /\ y_delta' = y_delta)]_vars

\* C17 witness: from column 81 the ball has moved on to column 82
C17_Witness ==
    /\ pc["Ball"] = "Draw"
    /\ sw = NoSample
    /\ x = SCREEN_X_END + 2
    /\ x_delta = 1

\* the places of the Ball task's loop, in the order of the code
BallOrder ==
    [Begin |-> {"FirstDraw", "Dly"}, FirstDraw |-> {"Dly"}, Dly |-> {"Erase"},
     Erase |-> {"Erasing", "Move"}, Erasing |-> {"Move"}, Move |-> {"Draw"},
     Draw |-> {"Drawing", "Dly"}, Drawing |-> {"Dly"}]

\* the Ball task is about to send the character of a write
BallSendsChar(c) ==
    /\ pending["Ball"] = << c >>
    /\ pending'["Ball"] = << >>

\* C15: the Ball task goes through erase, move, draw in this order in every
\* tick; the blank of the erase goes to the cell <<x, y>> where the '*' was
\* last drawn and removes it, the position changes only in the move between
\* the erase and the draw and by the resolved velocity, and the '*' of the
\* draw goes to the new <<x, y>>
C15_StepOrder ==
    [][/\ pc'["Ball"] # pc["Ball"] => pc'["Ball"] \in BallOrder[pc["Ball"]]
       /\ (pc["Ball"] = "Erasing" /\ BallSendsChar(CH_BLANK))
             => /\ term.cur = << x, y >>
                /\ stars = {<< x, y >>}
                /\ stars' = {}
       /\ (pc["Ball"] \in {"FirstDraw", "Drawing"} /\ BallSendsChar(CH_STAR))
             => /\ term.cur = << x, y >>
                /\ stars = {}
                /\ stars' = {<< x, y >>}
       /\ stars' # stars => (BallSendsChar(CH_BLANK) \/ BallSendsChar(CH_STAR))
       /\ (<< x', y' >> # << x, y >> /\ pc["Ball"] # "Begin") => MoveStep
       /\ MoveStep => (x' = x + x_delta' /\ y' = y + y_delta')]_vars

\* C15 witness: a second tick is complete, its '*' is the only one shown and
\* stands in a cell other than the first two
C15_Witness ==
    /\ pc["Ball"] = "Dly"
    /\ ticks >= 2
    /\ stars = {<< x, y >>}
    /\ x = BALL_X_START + 2

\* task t sends a byte
Sends(t) == pending[t] # << >> /\ pending'[t] = Tail(pending[t])

\* C18: a byte sent by a task that does not hold the lock is sent before the
\* Ball task is created; once the Ball task exists every byte is sent by the
\* holder of the lock, and no ESC c (clear screen) is completed
C18_UnlockedBeforeBall ==
    [][\A t \in Tasks : Sends(t) =>
          /\ lockOwner # t => pc["Ball"] = "NotCreated"
          /\ pc["Ball"] # "NotCreated" => lockOwner = t
          /\ (term.mode = "esc" /\ Head(pending[t]) = CH_c)
                => pc["Ball"] = "NotCreated"]_vars

\* C18 witness: the Ball task exists and has drawn, the statistics display
\* is being sent by the Start task, which holds the lock
C18_Witness ==
    /\ BallStarted
    /\ stars # {}
    /\ pc["Start"] = "StatLines"
    /\ lockOwner = "Start"
    /\ Len(txRun) >= 1
    /\ RunTasks = {"Start"}

\* C20: with no input ever the ball stays on row 12 and moves one column to
\* the right per tick; a completed tick shows the '*' on row 12 at the ball's
\* column while that is at most 80; once the column exceeds 80 the Ball task
\* sends no byte any more, for good, while its ticks go on
C20_LostBall ==
    /\ [](BallStarted => (y = BALL_Y_START /\ x_delta = 1 /\ y_delta = 0))
    /\ [][MoveStep => x' = x + 1]_vars
    /\ []((pc["Ball"] = "Dly" /\ x <= SCREEN_X_END) => stars = {<< x, BALL_Y_START >>})
    /\ []((BallStarted /\ x > SCREEN_X_END)
             => /\ pending["Ball"] = << >>
                /\ pc["Ball"] \notin {"Erasing", "Drawing"}
                /\ lockOwner # "Ball"
                /\ (pc["Ball"] # "Draw" \/ x > SCREEN_X_END + 1) => stars = {})
    /\ [][(BallStarted /\ x > SCREEN_X_END) => ~Sends("Ball")]_vars
    /\ <>[](x > SCREEN_X_END /\ pending["Ball"] = << >>)

\* C20 witness: two ticks after the '*' stood in column 80 the ball is in
\* column 82, the tick is complete and the transport has seen nothing of it
C20_Witness ==
    /\ pc["Ball"] = "Dly"
    /\ x = SCREEN_X_END + 2
    /\ y = BALL_Y_START
    /\ txRun = << >>
    /\ stars = {}

\* the cells the statistics display writes: two characters from column 40
\* in rows 2 and 3, three in rows 4 and 5
StatCells ==
    {<< STAT_X + k, r >> : k \in 0..1, r \in 2..3}
        \cup {<< STAT_X + k, r >> : k \in 0..2, r \in 4..5}

\* C19 as stated: at most one cell shows '*'; after a completed tick exactly
\* the ball's cell shows it when the ball is on the screen, none when it is not
C19_Original ==
    /\ Cardinality(stars) <= 1
    /\ (pc["Ball"] = "Dly" /\ ~OutOfBounds(x, y)) => stars = {<< x, y >>}
    /\ (pc["Ball"] = "Dly" /\ OutOfBounds(x, y)) => stars = {}

\* C19: at most one cell shows '*' and it is the ball's cell; after a
\* completed tick no cell shows it when the ball is off the screen; when the
\* ball is on the screen its cell shows it, unless the cell is one of those
\* the statistics display writes, where the '*' may have been written over
C19_SingleImage ==
    /\ Cardinality(stars) <= 1
    /\ BallStarted => stars \subseteq {<< x, y >>}
    /\ (pc["Ball"] = "Dly" /\ OutOfBounds(x, y)) => stars = {}
    /\ (pc["Ball"] = "Dly" /\ ~OutOfBounds(x, y) /\ << x, y >> \notin StatCells)
          => stars = {<< x, y >>}

\* C19 witness: the tick that drew the '*' at (40, 4) is complete and the
\* statistics display has written over it
C19_Witness ==
    /\ pc["Ball"] = "Dly"
    /\ x = STAT_X
    /\ y = 4
    /\ stars = {}
    /\ pc["Start"] = "LedDly"

\* C12: under a fair scheduler a task that is about to take the lock gets
\* it, a task that holds the lock gives it up, and the Ball task completes
\* tick after tick for ever
C12_Liveness ==
    /\ \A t \in Tasks : (lockOwner = t) ~> (lockOwner # t)
    /\ (pc["Ball"] \in {"Begin", "Erase", "Draw"}) ~> (lockOwner = "Ball")
    /\ (pc["Start"] = "Stat") ~> (lockOwner = "Start")
    /\ []<>(pc["Ball"] = "Move")
    /\ []<>(pc["Ball"] = "Dly")

\* C12 witness: the Ball task is about to erase, many ticks on, while the
\* Start task holds the lock in the middle of its statistics display
C12_Witness ==
    /\ pc["Ball"] = "Erase"
    /\ lockOwner = "Start"
    /\ pending["Start"] # << >>
    /\ ticks = TickCap

====
